---- MODULE Spec2Model ----
(***************************************************************************)
(* Model of _single_source_co2_fill (velocity_model.py) and of the replay  *)
(* helper get_reservoir_from_snapshot (utils.py).                          *)
(*                                                                         *)
(* One behaviour is one call of _single_source_co2_fill.  The inputs       *)
(* (grid, depth axis, source, topography value at the source and           *)
(* total_snapshots) are chosen in Init; the actions are the steps of the   *)
(* function body: Start (lines 28-78), Seed (80-85), Pop (88-134),         *)
(* Advance (137) and Return (139).  NumPy indexing is modelled as NumPy    *)
(* does it: a negative index wraps around, an index >= the axis length     *)
(* raises IndexError.                                                      *)
(***************************************************************************)
EXTENDS Integers, Sequences, FiniteSets, Bags, TLC

\* ------------------------------------------------------------------ bounds
\* Largest number of reservoir cells in an enumerated input grid.
MaxReservoir == 4
\* total_snapshots ranges over 1..MaxSnapshots.
MaxSnapshots == 2

\* Shapes (nx, ny, nz) of the enumerated input grids.
Shapes == { <<2, 2, 2>> }
\* Shapes of the enumerated grids whose faces x = nx-1 and y = ny-1 are caprock.
SealedShapes == { <<3, 3, 2>>, <<3, 2, 3>>, <<2, 2, 4>> }
\* Shape of the vertical-column scenario.
ColumnShape == <<1, 1, 5>>

\* --------------------------------------------------------------- constants
VELOCITY_CAPROCK == 2607
VELOCITY_RESERVOIR == 1500
VELOCITY_CO2 == 300
\* np.ones_like(...) * -1: the "unfilled" mark of the fill-order grid.
UNFILLED == -1

VARIABLES
    nx, ny, nz,                   \* injection_matrix.shape
    caprock_matrix,               \* the grid as the caller passed it
    injection_matrix,             \* the grid, mutated in place
    depths,                       \* depth axis, index 0..nz-1
    source,                       \* (x, y)
    depth_injection_start,        \* topography[source]
    total_snapshots,
    visited,
    snapshot_interval,
    snapshots,
    xi, yi, zi,
    snapshots_counter,
    cells_filled_since_snapshot,
    heap,                         \* bag of (depth, x, y, z)
    pc,                           \* start | outer | inner | done | aborted
    err,                          \* the exception that ended the run, if any
    fill_sequence,                \* history: cells in the order they were filled
    advance_log,                  \* history: the grid each time the counter advanced
    seed_log                      \* history: the cell each outer iteration seeded

vars == << nx, ny, nz, caprock_matrix, injection_matrix, depths, source,
           depth_injection_start, total_snapshots, visited, snapshot_interval,
           snapshots, xi, yi, zi, snapshots_counter,
           cells_filled_since_snapshot, heap, pc, err, fill_sequence,
           advance_log, seed_log >>

inputs == << nx, ny, nz, caprock_matrix, depths, source,
             depth_injection_start, total_snapshots >>

\* ----------------------------------------------------------------- helpers
Max(a, b) == IF a >= b THEN a ELSE b

Abs(a) == IF a < 0 THEN -a ELSE a

CellsOf(X, Y, Z) == (0 .. X - 1) \X (0 .. Y - 1) \X (0 .. Z - 1)

Cells == CellsOf(nx, ny, nz)

\* NumPy integer indexing on an axis of length n.
IndexError(i, n) == i >= n \/ i < -n

Wrap(i, n) == IF i < 0 THEN i + n ELSE i

\* m[x, y, z] as NumPy evaluates it (the caller has excluded IndexError).
At(m, x, y, z) == m[<< Wrap(x, nx), Wrap(y, ny), Wrap(z, nz) >>]

is_inside_bounds(x, y, z) ==
    /\ 0 <= x /\ x < nx
    /\ 0 <= y /\ y < ny
    /\ 0 <= z /\ z < nz

SPREAD_DIRECTIONS ==
    << <<-1, 0>>, <<1, 0>>, <<0, -1>>, <<0, 1>>,
       <<-1, -1>>, <<-1, 1>>, <<1, -1>>, <<1, 1>> >>

UP_DIRECTIONS == << <<0, 0>> >> \o SPREAD_DIRECTIONS

\* np.argmin(np.abs(depths - d)): the first index of the smallest distance.
ArgMinAbs(ax, n, d) ==
    CHOOSE k \in 0 .. n - 1 :
        /\ \A j \in 0 .. n - 1 : Abs(ax[k] - d) <= Abs(ax[j] - d)
        /\ \A j \in 0 .. k - 1 : Abs(ax[j] - d) > Abs(ax[k] - d)

\* Faulty variant: divides by one snapshot too many.
SnapshotIntervalHalved(n, total) == Max(1, n \div (total + 1))

\* max(1, n_total_reservoir_cells // total_snapshots)
SnapshotInterval(n, total) == Max(1, n \div total)

ReservoirCount(m) == Cardinality({ c \in DOMAIN m : m[c] = VELOCITY_RESERVOIR })

\* Tuple order of the heap entries (depth, x, y, z).
TupleLess(a, b) ==
    \/ a[1] < b[1]
    \/ a[1] = b[1] /\ a[2] < b[2]
    \/ a[1] = b[1] /\ a[2] = b[2] /\ a[3] < b[3]
    \/ a[1] = b[1] /\ a[2] = b[2] /\ a[3] = b[3] /\ a[4] < b[4]

heappush(h, e) == h (+) SetToBag({e})

\* The entry heappop returns: the smallest one.
HeapMin(h) ==
    CHOOSE e \in BagToSet(h) : \A f \in BagToSet(h) : f = e \/ TupleLess(e, f)

HeapRest(h) == h (-) SetToBag({HeapMin(h)})

NoError == [type |-> "none", line |-> 0]

\* ------------------------------------------------------- the fill rule
\* Faulty variants: the test of the cell above, or of the cell itself, dropped.
CanFillWithoutLookingUp(m, x, y, z) == At(m, x, y, z) = VELOCITY_RESERVOIR

CanFillAnyCell(m, x, y, z) == At(m, x, y, z - 1) /= VELOCITY_RESERVOIR

\* Lines 104-108: the cell is reservoir and the cell above it (zi - 1, which
\* NumPy wraps to nz - 1 when zi = 0) is not reservoir.
CanFill(m, x, y, z) ==
    /\ At(m, x, y, z) = VELOCITY_RESERVOIR
    /\ At(m, x, y, z - 1) /= VELOCITY_RESERVOIR

\* Faulty variants: the order recorded after the counter has advanced, and
\* the counter stepping down.
RecordAfterAdvance(counter, since, interval) ==
    LET hit == since + 1 >= interval
    IN  [ order   |-> IF hit THEN counter + 1 ELSE counter,
          counter |-> IF hit THEN counter + 1 ELSE counter,
          since   |-> IF hit THEN 0 ELSE since + 1 ]

RecordAndCountDown(counter, since, interval) ==
    LET hit == since + 1 >= interval
    IN  [ order   |-> counter,
          counter |-> IF hit THEN counter - 1 ELSE counter,
          since   |-> IF hit THEN 0 ELSE since + 1 ]

\* Lines 110-116: the order recorded for the cell being filled, and the
\* counters after it.
RecordAndAdvance(counter, since, interval) ==
    LET hit == since + 1 >= interval
    IN  [ order   |-> counter,
          counter |-> IF hit THEN counter + 1 ELSE counter,
          since   |-> IF hit THEN 0 ELSE since + 1 ]

\* --------------------------------------------------- neighbour expansion
\* Lines 122-128 (up = TRUE, Z = zi - 1) and 130-134 (up = FALSE, Z = zi):
\* the loop over dirs from position i on.  The grid is indexed BEFORE
\* is_inside_bounds is asked, so an index equal to the axis length raises
\* IndexError and ends the loop; acc is [heap, added, err].
RECURSIVE Scan(_, _, _, _, _, _, _, _)
Scan(dirs, i, m, x, y, Z, up, acc) ==
    IF i > Len(dirs) \/ acc.err /= NoError
    THEN acc
    ELSE LET X == x + dirs[i][1]
             Y == y + dirs[i][2]
             raised == IndexError(X, nx) \/ IndexError(Y, ny) \/ IndexError(Z, nz)
             wanted == IF up THEN At(m, X, Y, Z) = VELOCITY_RESERVOIR
                             ELSE At(m, X, Y, Z) /= VELOCITY_CAPROCK
             next ==
                 IF raised
                 THEN [acc EXCEPT !.err = [type |-> "IndexError",
                                           line |-> IF up THEN 124 ELSE 131]]
                 ELSE IF wanted /\ is_inside_bounds(X, Y, Z)
                 THEN [acc EXCEPT !.heap = heappush(@, << depths[Z], X, Y, Z >>),
                                  !.added = IF up THEN TRUE ELSE @]
                 ELSE acc
         IN  Scan(dirs, i + 1, m, x, y, Z, up, next)

\* Lines 119-134 for the popped cell (x, y, z), on the grid m and the heap h.
Expand(m, h, x, y, z) ==
    LET above == Scan(UP_DIRECTIONS, 1, m, x, y, z - 1, TRUE,
                      [heap |-> h, added |-> FALSE, err |-> NoError])
    IN  IF above.err = NoError /\ ~above.added
        THEN Scan(SPREAD_DIRECTIONS, 1, m, x, y, z, FALSE, above)
        ELSE above

\* ------------------------------------------------------------- replay
\* utils.get_reservoir_from_snapshot
get_reservoir_from_snapshot(caprock, snaps, snapshot_value) ==
    [ c \in DOMAIN caprock |->
        IF snaps[c] <= snapshot_value /\ snaps[c] /= UNFILLED
        THEN VELOCITY_CO2
        ELSE caprock[c] ]

FilledCells(m) == { c \in DOMAIN m : m[c] = VELOCITY_CO2 }

\* ------------------------------------------------------------- inputs
\* Depth axes of length n: increasing, flat (all ties) and decreasing.
DepthAxes(n) ==
    { [k \in 0 .. n - 1 |-> k + 1],
      [k \in 0 .. n - 1 |-> 1],
      [k \in 0 .. n - 1 |-> n - k] }

NonDecreasing(ax, n) == \A k \in 0 .. n - 2 : ax[k] <= ax[k + 1]

\* The subsets of S with at most k elements.
RECURSIVE SubsetsUpTo(_, _)
SubsetsUpTo(S, k) ==
    IF k = 0
    THEN { {} }
    ELSE LET smaller == SubsetsUpTo(S, k - 1)
         IN  smaller \cup { T \cup {c} : T \in smaller, c \in S }

\* Grids of caprock with at most MaxReservoir reservoir cells, all in free.
GridsWith(X, Y, Z, free) ==
    { [c \in CellsOf(X, Y, Z) |->
          IF c \in S THEN VELOCITY_RESERVOIR ELSE VELOCITY_CAPROCK] :
      S \in SubsetsUpTo(free, MaxReservoir) }

\* Reservoir cells anywhere.
Grids(X, Y, Z) == GridsWith(X, Y, Z, CellsOf(X, Y, Z))

\* Reservoir cells off the faces x = X-1 and y = Y-1 only.
SealedGrids(X, Y, Z) == GridsWith(X, Y, Z, CellsOf(X - 1, Y - 1, Z))

\* The vertical column: reservoir, caprock, reservoir, reservoir, reservoir.
ColumnGrid ==
    [ c \in CellsOf(ColumnShape[1], ColumnShape[2], ColumnShape[3]) |->
        IF c[3] = 1 THEN VELOCITY_CAPROCK ELSE VELOCITY_RESERVOIR ]

\* The state of the locals that lines 32-42 and 77-78 create.
FreshRun ==
    /\ injection_matrix = caprock_matrix
    /\ visited = [c \in Cells |-> FALSE]
    /\ snapshots = [c \in Cells |-> UNFILLED]
    /\ snapshot_interval = 0
    /\ xi = 0 /\ yi = 0 /\ zi = 0
    /\ snapshots_counter = 0
    /\ cells_filled_since_snapshot = 0
    /\ heap = EmptyBag
    /\ pc = "start"
    /\ err = NoError
    /\ fill_sequence = << >>
    /\ advance_log = << >>
    /\ seed_log = << >>

InitCall(shape, grids) ==
    /\ nx = shape[1] /\ ny = shape[2] /\ nz = shape[3]
    /\ caprock_matrix \in grids
    /\ depths \in DepthAxes(shape[3])
    /\ source \in (0 .. shape[1] - 1) \X (0 .. shape[2] - 1)
    /\ depth_injection_start \in { depths[k] : k \in 0 .. shape[3] - 1 }
    /\ total_snapshots \in 1 .. MaxSnapshots
    /\ FreshRun

Init ==
    \/ \E shape \in Shapes : InitCall(shape, Grids(shape[1], shape[2], shape[3]))
    \/ \E shape \in SealedShapes :
           InitCall(shape, SealedGrids(shape[1], shape[2], shape[3]))
    \/ InitCall(ColumnShape, {ColumnGrid})

\* ------------------------------------------------------------ actions
\* Faulty variant: the second assertion (lines 56-58) missing.
SourceCheckReservoirOnly(m, x, y, z) ==
    IF IndexError(z, nz)
    THEN [type |-> "IndexError", line |-> 53]
    ELSE IF At(m, x, y, z) /= VELOCITY_RESERVOIR
    THEN [type |-> "AssertionError", line |-> 53]
    ELSE NoError

\* Lines 53-58: the exception the two indexed assertions raise for the
\* derived injection cell (x, y, z), or NoError.  z = argmin + 1 >= 1, so
\* z - 1 never wraps; z = nz is past the end of the axis.
SourceCheck(m, x, y, z) ==
    IF IndexError(z, nz)
    THEN [type |-> "IndexError", line |-> 53]
    ELSE IF At(m, x, y, z) /= VELOCITY_RESERVOIR
    THEN [type |-> "AssertionError", line |-> 53]
    ELSE IF At(m, x, y, z - 1) /= VELOCITY_CAPROCK
    THEN [type |-> "AssertionError", line |-> 56]
    ELSE NoError

\* The z index line 51 derives from the source.
InjectionIndex == ArgMinAbs(depths, nz, depth_injection_start) + 1

\* Lines 28-78: everything before the outer loop.
Start ==
    /\ pc = "start"
    /\ snapshot_interval' =
           SnapshotInterval(ReservoirCount(injection_matrix), total_snapshots)
    /\ xi' = source[1]
    /\ yi' = source[2]
    /\ zi' = InjectionIndex
    /\ err' = SourceCheck(injection_matrix, source[1], source[2], InjectionIndex)
    /\ pc' = IF err' = NoError THEN "outer" ELSE "aborted"
    /\ UNCHANGED << inputs, injection_matrix, visited, snapshots,
                    snapshots_counter, cells_filled_since_snapshot, heap,
                    fill_sequence, advance_log, seed_log >>

\* Lines 80-85: an outer iteration begins; the heap is rebuilt from
\* the current (xi, yi, zi).
Seed ==
    /\ pc = "outer"
    /\ zi < nz
    /\ heap' = IF is_inside_bounds(xi, yi, zi)
               THEN heappush(EmptyBag, << depths[zi], xi, yi, zi >>)
               ELSE EmptyBag
    /\ seed_log' = IF is_inside_bounds(xi, yi, zi)
                   THEN Append(seed_log, << xi, yi, zi >>)
                   ELSE seed_log
    /\ pc' = "inner"
    /\ UNCHANGED << inputs, injection_matrix, visited, snapshot_interval,
                    snapshots, xi, yi, zi, snapshots_counter,
                    cells_filled_since_snapshot, err, fill_sequence,
                    advance_log >>

\* Lines 88-134: one iteration of the inner loop.  heappop assigns
\* xi, yi, zi, also when the popped cell is then skipped.
Pop ==
    /\ pc = "inner"
    /\ heap /= EmptyBag
    /\ LET e    == HeapMin(heap)
           x    == e[2]
           y    == e[3]
           z    == e[4]
           rest == HeapRest(heap)
           skip == visited[<< x, y, z >>] \/ ~is_inside_bounds(x, y, z)
           fill == CanFill(injection_matrix, x, y, z)
           rec  == RecordAndAdvance(snapshots_counter,
                                    cells_filled_since_snapshot,
                                    snapshot_interval)
           m    == IF fill
                   THEN [injection_matrix EXCEPT ![<< x, y, z >>] = VELOCITY_CO2]
                   ELSE injection_matrix
           out  == Expand(m, rest, x, y, z)
       IN  /\ xi' = x /\ yi' = y /\ zi' = z
           /\ IF skip
              THEN /\ heap' = rest
                   /\ pc' = "inner"
                   /\ UNCHANGED << injection_matrix, visited, snapshots,
                                   snapshots_counter,
                                   cells_filled_since_snapshot, err,
                                   fill_sequence, advance_log >>
              ELSE /\ visited' = [visited EXCEPT ![<< x, y, z >>] = TRUE]
                   /\ injection_matrix' = m
                   /\ snapshots' = IF fill
                                   THEN [snapshots EXCEPT ![<< x, y, z >>] = rec.order]
                                   ELSE snapshots
                   /\ snapshots_counter' =
                          IF fill THEN rec.counter ELSE snapshots_counter
                   /\ cells_filled_since_snapshot' =
                          IF fill THEN rec.since ELSE cells_filled_since_snapshot
                   /\ fill_sequence' = IF fill
                                       THEN Append(fill_sequence, << x, y, z >>)
                                       ELSE fill_sequence
                   /\ advance_log' =
                          IF fill /\ rec.counter /= snapshots_counter
                          THEN Append(advance_log, m)
                          ELSE advance_log
                   /\ heap' = out.heap
                   /\ err' = out.err
                   /\ pc' = IF out.err = NoError THEN "inner" ELSE "aborted"
    /\ UNCHANGED << inputs, snapshot_interval, seed_log >>

\* Faulty variant: the depth index moves on by two layers.
AdvanceTwoLayers ==
    /\ pc = "inner"
    /\ heap = EmptyBag
    /\ zi' = zi + 2
    /\ pc' = "outer"
    /\ UNCHANGED << inputs, injection_matrix, visited, snapshot_interval,
                    snapshots, xi, yi, snapshots_counter,
                    cells_filled_since_snapshot, heap, err, fill_sequence,
                    advance_log, seed_log >>

\* Lines 88 and 137: the heap is empty, the depth index moves on.
Advance ==
    /\ pc = "inner"
    /\ heap = EmptyBag
    /\ zi' = zi + 1
    /\ pc' = "outer"
    /\ UNCHANGED << inputs, injection_matrix, visited, snapshot_interval,
                    snapshots, xi, yi, snapshots_counter,
                    cells_filled_since_snapshot, heap, err, fill_sequence,
                    advance_log, seed_log >>

\* Lines 80 and 139: zi has reached nz, the fill-order grid is returned.
Return ==
    /\ pc = "outer"
    /\ zi >= nz
    /\ pc' = "done"
    /\ UNCHANGED << inputs, injection_matrix, visited, snapshot_interval,
                    snapshots, xi, yi, zi, snapshots_counter,
                    cells_filled_since_snapshot, heap, err, fill_sequence,
                    advance_log, seed_log >>

Next == Start \/ Seed \/ Pop \/ Advance \/ Return

Spec == Init /\ [][Next]_vars

\* The interpreter always takes the next step of the running call.
FairSpec == Spec /\ WF_vars(Next)

\* ===================================================== claims C1 - C10
Filled == FilledCells(injection_matrix)

Finished == pc \in {"done", "aborted"}

\* C1: in every state of a run, a cell has a recorded fill order exactly when
\* it holds CO2, every CO2 cell was reservoir in the input grid, and every
\* caprock cell of the input grid is still caprock.
StateConsistency ==
    \A c \in Cells :
        /\ snapshots[c] /= UNFILLED <=> injection_matrix[c] = VELOCITY_CO2
        /\ injection_matrix[c] = VELOCITY_CO2
               => caprock_matrix[c] = VELOCITY_RESERVOIR
        /\ caprock_matrix[c] = VELOCITY_CAPROCK
               => injection_matrix[c] = VELOCITY_CAPROCK

\* A run returned after filling cells and after popping a caprock cell.
StateConsistencyWitness ==
    /\ pc = "done"
    /\ Len(fill_sequence) >= 2
    /\ \E c \in Cells : visited[c] /\ caprock_matrix[c] = VELOCITY_CAPROCK

\* C2: for every snapshot index N, the cells get_reservoir_from_snapshot marks
\* as CO2 are the cells that held CO2 when the counter advanced from N to
\* N + 1, or the cells that hold CO2 now if it has not advanced past N.
ReplayAgrees ==
    \A N \in 0 .. snapshots_counter :
        FilledCells(get_reservoir_from_snapshot(caprock_matrix, snapshots, N))
          = IF N < Len(advance_log)
            THEN FilledCells(advance_log[N + 1])
            ELSE Filled

\* A run returned after the counter advanced and more cells were filled after
\* the advance, with an interval of more than one cell.
ReplayAgreesWitness ==
    /\ pc = "done"
    /\ snapshot_interval >= 2
    /\ Len(advance_log) >= 1
    /\ FilledCells(advance_log[1]) /= Filled

\* C3: every CO2 cell with z >= 1 has a cell above it that is not reservoir.
TrappingCorrectness ==
    \A c \in Filled :
        c[3] >= 1 => injection_matrix[<< c[1], c[2], c[3] - 1 >>] /= VELOCITY_RESERVOIR

\* A returned run in which a cell was filled under a CO2 cell, and a
\* reservoir cell was popped and left unfilled.
TrappingCorrectnessWitness ==
    /\ pc = "done"
    /\ \E c \in Filled :
           c[3] >= 1 /\ injection_matrix[<< c[1], c[2], c[3] - 1 >>] = VELOCITY_CO2
    /\ \E c \in Cells : visited[c] /\ injection_matrix[c] = VELOCITY_RESERVOIR

\* C4: recorded fill orders are >= 0 and non-decreasing in the order the cells
\* were filled, and the snapshot counter never decreases.
FillOrderSorted ==
    /\ \A i \in 1 .. Len(fill_sequence) : snapshots[fill_sequence[i]] >= 0
    /\ \A i \in 1 .. Len(fill_sequence) : \A j \in i + 1 .. Len(fill_sequence) :
           snapshots[fill_sequence[i]] <= snapshots[fill_sequence[j]]

MonotonicFillOrder ==
    /\ []FillOrderSorted
    /\ [][snapshots_counter' >= snapshots_counter]_vars

\* Cells were filled in two different outer iterations with different orders.
MonotonicFillOrderWitness ==
    /\ pc = "done"
    /\ Len(fill_sequence) >= 3
    /\ snapshots[fill_sequence[1]] < snapshots[fill_sequence[Len(fill_sequence)]]
    /\ fill_sequence[1][3] < fill_sequence[Len(fill_sequence)][3]

\* The source precondition of lines 53-58, on the grid as passed: the derived
\* injection cell exists, is reservoir, and the cell above it is caprock.
SourceIsBelowCaprock ==
    /\ InjectionIndex < nz
    /\ caprock_matrix[<< source[1], source[2], InjectionIndex >>] = VELOCITY_RESERVOIR
    /\ caprock_matrix[<< source[1], source[2], InjectionIndex - 1 >>] = VELOCITY_CAPROCK

Untouched ==
    /\ injection_matrix = caprock_matrix
    /\ snapshots = [c \in Cells |-> UNFILLED]
    /\ visited = [c \in Cells |-> FALSE]

\* C5: when the derived injection cell is not reservoir, or the cell above it
\* is not caprock, the run ends with an exception, never returns, and the
\* grid, the fill-order grid and the visited mask are as they were created.
PreconditionIsFatal ==
    (pc /= "start" /\ ~SourceIsBelowCaprock) => (pc = "aborted" /\ Untouched)

\* The run was refused because the cell above the reservoir injection cell
\* is not caprock.
PreconditionIsFatalWitness ==
    /\ pc = "aborted"
    /\ err = [type |-> "AssertionError", line |-> 56]
    /\ Untouched

\* C6: a neighbour coordinate outside the grid never ends the run: the only
\* exceptions a run raises are those of the source precondition.
NeighboursNeverAbort == err /= NoError => err.line \in {53, 56}

\* C7: with a non-decreasing depth axis and a source that satisfies the
\* precondition, the run terminates by returning: as long as it has not
\* returned it has a next step, so it stops nowhere but at line 139.
Termination ==
    (NonDecreasing(depths, nz) /\ SourceIsBelowCaprock)
        => (pc = "done" \/ ENABLED Next)

\* C8: a depth axis that is not non-decreasing is rejected before any cell is
\* filled: the run does not get past its start.
DepthAxisRejected ==
    (~NonDecreasing(depths, nz) /\ pc /= "start")
        => (pc = "aborted" /\ Filled = {})

\* The call of the vertical-column scenario: injection at (0, 0, 2).
IsColumnScenario ==
    /\ << nx, ny, nz >> = ColumnShape
    /\ caprock_matrix = ColumnGrid
    /\ source = << 0, 0 >>
    /\ InjectionIndex = 2

\* C9: the vertical-column run completes with the cell at z = 2 CO2, the cell
\* at z = 0 still reservoir and unfilled, and the cell at z = 1 still caprock.
VerticalColumnCompletes ==
    (IsColumnScenario /\ Finished)
        => /\ pc = "done"
           /\ injection_matrix[<< 0, 0, 2 >>] = VELOCITY_CO2
           /\ injection_matrix[<< 0, 0, 0 >>] = VELOCITY_RESERVOIR
           /\ snapshots[<< 0, 0, 0 >>] = UNFILLED
           /\ injection_matrix[<< 0, 0, 1 >>] = VELOCITY_CAPROCK

\* C10: with total_snapshots = 1 the interval is the number of reservoir
\* cells of the input grid (1 when there are none), and the fill-order grid
\* holds no value other than UNFILLED, 0 and 1.
SingleSnapshot ==
    (total_snapshots = 1 /\ pc /= "start")
        => /\ snapshot_interval =
                  IF ReservoirCount(caprock_matrix) = 0
                  THEN 1
                  ELSE ReservoirCount(caprock_matrix)
           /\ \A c \in Cells : snapshots[c] \in {UNFILLED, 0, 1}

\* A run with total_snapshots = 1 returned after filling every one of
\* several reservoir cells, which advanced the counter.
SingleSnapshotWitness ==
    /\ total_snapshots = 1
    /\ pc = "done"
    /\ ReservoirCount(caprock_matrix) >= 2
    /\ snapshots_counter = 1

\* ==================================================== claims C11 - C14
\* C11: the k-th outer iteration (k = 0, 1, ...) seeds the heap with the
\* original source column one layer deeper each time: the cell
\* (source x, source y, injection index + k).
SeedsFromSourceColumn ==
    \A k \in 1 .. Len(seed_log) :
        seed_log[k] = << source[1], source[2], InjectionIndex + (k - 1) >>

\* The cell the first outer iteration seeds.
InjectionCell == << source[1], source[2], InjectionIndex >>

\* Two different cells next to each other: in the same layer and horizontally
\* adjacent (8-neighbourhood), or one layer apart with |dx| <= 1 and |dy| <= 1.
Adjacent(c, d) ==
    /\ c /= d
    /\ Abs(c[1] - d[1]) <= 1
    /\ Abs(c[2] - d[2]) <= 1
    /\ Abs(c[3] - d[3]) <= 1

\* The cells of allowed that a path of adjacent cells of allowed joins to S.
RECURSIVE ConnectedTo(_, _)
ConnectedTo(S, allowed) ==
    LET T == S \cup { c \in allowed : \E d \in S : Adjacent(c, d) }
    IN  IF T = S THEN S ELSE ConnectedTo(T, allowed)

NonBarrier == { c \in Cells : caprock_matrix[c] /= VELOCITY_CAPROCK }

\* C12: at return, every CO2 cell is joined to the injection cell by a path
\* of adjacent cells none of which is caprock in the input grid.
NeverCrossesBarrier ==
    pc = "done" => Filled \subseteq ConnectedTo({InjectionCell}, NonBarrier)

SeedCells == { seed_log[k] : k \in 1 .. Len(seed_log) }

\* C12 as amended: in every state of a run, and so at return, every CO2 cell
\* is joined to the injection cell by a path of adjacent cells each of which
\* is not caprock in the input grid or was seeded by an outer iteration.
CrossesBarrierOnlyAtSeeds ==
    Filled \subseteq ConnectedTo({InjectionCell}, NonBarrier \cup SeedCells)

\* A returned run that filled a cell no caprock-free path joins to the
\* injection cell: the barrier was crossed where a caprock cell was seeded.
CrossesBarrierOnlyAtSeedsWitness ==
    /\ pc = "done"
    /\ ~(Filled \subseteq ConnectedTo({InjectionCell}, NonBarrier))
    /\ \E c \in SeedCells : caprock_matrix[c] = VELOCITY_CAPROCK

\* The cell the next Pop takes from the heap, when it will not be skipped.
NextPop == << HeapMin(heap)[2], HeapMin(heap)[3], HeapMin(heap)[4] >>

PopIsDue ==
    /\ pc = "inner"
    /\ heap /= EmptyBag
    /\ ~visited[NextPop]

\* The cells the fill decision for c may read: c and the cell above it.
\* A top-layer cell has no cell above it.
OwnAndAbove(c) ==
    {c} \cup (IF c[3] >= 1 THEN { << c[1], c[2], c[3] - 1 >> } ELSE {})

CellValues == { VELOCITY_CAPROCK, VELOCITY_RESERVOIR, VELOCITY_CO2 }

\* C13: the fill decision for the popped cell is the same whatever any cell
\* other than it and the cell above it holds; and for a top-layer cell
\* neither the decision nor the candidates its expansion pushes change
\* with the contents of the bottom layer.
FillDecisionIsLocal ==
    PopIsDue =>
        LET c == NextPop
        IN  \A b \in Cells \ OwnAndAbove(c) : \A v \in CellValues :
                LET other == [injection_matrix EXCEPT ![b] = v]
                IN  /\ CanFill(other, c[1], c[2], c[3])
                         = CanFill(injection_matrix, c[1], c[2], c[3])
                    /\ (c[3] = 0 /\ b[3] = nz - 1)
                         => Expand(other, HeapRest(heap), c[1], c[2], c[3]).heap
                              = Expand(injection_matrix, HeapRest(heap),
                                       c[1], c[2], c[3]).heap

\* C14: every recorded fill order is below total_snapshots, so the fill-order
\* grid holds at most total_snapshots distinct snapshot indices.
SnapshotsWithinTotal ==
    /\ \A c \in Filled : snapshots[c] < total_snapshots
    /\ Cardinality({ snapshots[c] : c \in Filled }) <= total_snapshots
====
